---------------------------- MODULE Spec2Model ----------------------------
(***************************************************************************)
(* Self-service database provisioning: the request lifecycle of            *)
(* src/src/provisioning_api.py.                                            *)
(*                                                                         *)
(* The service holds one psycopg2 connection in autocommit mode, so every  *)
(* cursor.execute is a transaction of its own.  FastAPI runs the plain     *)
(* `def` endpoints on a thread pool, so several calls are in progress at   *)
(* once and their statements interleave.  One action of this module is one *)
(* SQL statement together with the Python code that follows it up to the   *)
(* next statement (or up to the return / raise).                           *)
(***************************************************************************)
EXTENDS Integers, Sequences, FiniteSets, TLC

(* ------------------------------- bounds -------------------------------- *)
\* calls (POST /requests and POST /approve) the service receives in a run
MaxCalls == 4

\* identifiers uuid4 can issue in a run, named by the order of issue
RequestIds == 1..MaxCalls
\* an identifier uuid4 issues to no request of the run
UnknownId == MaxCalls + 1

(* ------------------------------- values -------------------------------- *)
\* SQL NULL / Python None, and a present value
NULL == <<>>
Some(x) == <<x>>

\* DatabaseRequest bodies posted to /requests: the first of the demo client
\* and one whose db_type and size are outside the documented values
DatabaseRequests ==
    { [team_name |-> "data-engineering", db_type |-> "postgres",
       environment |-> "prod", size |-> "large", purpose |-> "Analytics warehouse"],
      [team_name |-> "platform", db_type |-> "mongo",
       environment |-> "dev", size |-> "xlarge", purpose |-> "Prototype"] }

\* ApprovalAction bodies posted to /approve for a request id: the two of the
\* demo client and one whose action is neither approve nor reject, without notes
ApprovalActions(r) ==
    { [request_id |-> r, action |-> "approve",
       approver |-> "john.doe@company.com",
       notes |-> Some("Approved - meets requirements")],
      [request_id |-> r, action |-> "reject",
       approver |-> "jane.smith@company.com",
       notes |-> Some("Insufficient justification")],
      [request_id |-> r, action |-> "hold",
       approver |-> "jane.smith@company.com",
       notes |-> NULL] }

(* -------------------------------- state -------------------------------- *)
VARIABLES
    db_requests,            \* table db_requests: request_id -> row
    provisioned_databases,  \* table provisioned_databases, in insertion order
    now,                    \* the database clock: the value NOW() returns next
    calls                   \* the calls received, in order of arrival: each
                            \* with its body, the statement it executes next,
                            \* its local variables and its HTTP response

vars == <<db_requests, provisioned_databases, now, calls>>

NoDetails == NULL
NoResponse == [status_code |-> 0]

Calls == 1..Len(calls)

(* ------------------------------ helpers -------------------------------- *)
\* uuid.uuid4(): an identifier not issued before; identifiers are named by
\* the order in which they are issued
uuid4 == Cardinality(DOMAIN db_requests) + 1

\* every statement is a transaction of its own (autocommit) and NOW() is the
\* start time of the transaction: a later statement sees a later time
Advance(t) == t + 1

\* mutant: the INSERT stamps approved_at as it stamps created_at
NewRequestRowStamped(request) ==
    [team_name |-> request.team_name, db_type |-> request.db_type,
     environment |-> request.environment, size |-> request.size,
     purpose |-> request.purpose, status |-> "pending",
     created_at |-> Some(now), approved_at |-> Some(now), provisioned_at |-> NULL,
     approver |-> NULL, approval_notes |-> NULL]

\* the row INSERT INTO db_requests ... VALUES (..., 'pending') creates
NewRequestRow(request) ==
    [team_name |-> request.team_name, db_type |-> request.db_type,
     environment |-> request.environment, size |-> request.size,
     purpose |-> request.purpose, status |-> "pending",
     created_at |-> Some(now), approved_at |-> NULL, provisioned_at |-> NULL,
     approver |-> NULL, approval_notes |-> NULL]

\* the return value of create_request
CreateResponse(request_id) ==
    [status_code |-> 200, request_id |-> request_id, status |-> "pending",
     message |-> <<"Request submitted for approval">>]

\* fetchone() of SELECT status ... WHERE request_id = %s: the row or None
SelectedStatus(request_id) ==
    IF request_id \in DOMAIN db_requests
    THEN Some(db_requests[request_id].status)
    ELSE NULL

\* mutant: a rejected request can be decided again
NotPendingOrRejected(status) == status \notin {"pending", "rejected"}

\* if result[0] != 'pending'
NotPending(status) == status # "pending"

\* mutant: the test is on "reject", every other action approves
NewStatusRejectOnly(action) == IF action = "reject" THEN "rejected" ELSE "approved"

\* new_status = 'approved' if approval.action == 'approve' else 'rejected'
NewStatus(action) == IF action = "approve" THEN "approved" ELSE "rejected"

\* mutant: every decision provisions
ShouldProvisionAnyAction(action) == TRUE

\* if approval.action == 'approve': self._provision_database(...)
ShouldProvision(action) == action = "approve"

\* mutant: the decision does not stamp approved_at
DecisionUpdateNoTimestamp(row, a) ==
    [row EXCEPT !.status = NewStatus(a.action),
                !.approver = Some(a.approver),
                !.approval_notes = a.notes]

\* UPDATE db_requests SET status, approver, approval_notes, approved_at = NOW()
DecisionUpdate(row, a) ==
    [row EXCEPT !.status = NewStatus(a.action),
                !.approver = Some(a.approver),
                !.approval_notes = a.notes,
                !.approved_at = Some(now)]

\* mutant: provisioning stamps provisioned_at and leaves the status
ProvisionedUpdateKeepsStatus(row) ==
    [row EXCEPT !.provisioned_at = Some(now)]

\* mutant: the final UPDATE applies only to a row that still reads approved
ProvisionedUpdateIfApproved(row) ==
    IF row.status = "approved"
    THEN [row EXCEPT !.status = "provisioned", !.provisioned_at = Some(now)]
    ELSE row

\* UPDATE db_requests SET status = 'provisioned', provisioned_at = NOW()
ProvisionedUpdate(row) ==
    [row EXCEPT !.status = "provisioned", !.provisioned_at = Some(now)]

\* mutant: an unrecognized size costs nothing
cost_map_no_default(size) ==
    CASE size = "small" -> 50
      [] size = "medium" -> 150
      [] size = "large" -> 500
      [] OTHER -> 0

\* cost_map.get(size, 100.00)
cost_map(size) ==
    CASE size = "small" -> 50
      [] size = "medium" -> 150
      [] size = "large" -> 500
      [] OTHER -> 100

\* port_map.get(db_type, 5432)
port_map(db_type) ==
    CASE db_type = "postgres" -> 5432
      [] db_type = "mysql" -> 3306
      [] db_type = "redis" -> 6379
      [] OTHER -> 5432

\* the row INSERT INTO provisioned_databases creates; db_id is the SERIAL
\* column, db_name is the generated name without its random suffix
NewDatabaseRow(request_id, d) ==
    [db_id |-> Len(provisioned_databases) + 1,
     request_id |-> request_id,
     db_name |-> <<d.team_name, d.environment, d.db_type>>,
     db_type |-> d.db_type,
     environment |-> d.environment,
     host |-> "db-cluster.example.com",
     port |-> port_map(d.db_type),
     estimated_cost |-> cost_map(d.size),
     status |-> "active",
     created_at |-> Some(now)]

\* the return value of process_approval
ApprovalResponse(a) ==
    [status_code |-> 200, request_id |-> a.request_id,
     status |-> NewStatus(a.action),
     message |-> <<"Request", NewStatus(a.action), "successfully">>]

\* mutant: an unknown request is answered as a bad request
NotFoundAsBadRequest == [status_code |-> 400, detail |-> <<"Request not found">>]

\* HTTPException(status_code=404, detail="Request not found")
NotFound == [status_code |-> 404, detail |-> <<"Request not found">>]

\* HTTPException(status_code=400, detail=f"Request already {result[0]}")
InvalidTransition(status) ==
    [status_code |-> 400, detail |-> <<"Request already", status>>]

\* the ProvisionedDatabase rows that reference a request
DatabasesOf(r) ==
    { i \in 1..Len(provisioned_databases) : provisioned_databases[i].request_id = r }

(* ------------------------------- actions ------------------------------- *)
Init ==
    /\ db_requests = <<>>
    /\ provisioned_databases = <<>>
    /\ now = 1
    /\ calls = <<>>

\* POST /requests: create_request, one INSERT
CreateRequest(request) ==
    /\ Len(calls) < MaxCalls
    /\ LET request_id == uuid4 IN
         /\ db_requests' = (request_id :> NewRequestRow(request)) @@ db_requests
         /\ calls' = Append(calls,
                [op |-> "create_request", body |-> request, pc |-> "done",
                 details |-> NoDetails, response |-> CreateResponse(request_id)])
    /\ now' = Advance(now)
    /\ UNCHANGED provisioned_databases

\* POST /approve: the endpoint hands the body to process_approval
ApproveRequest(a) ==
    /\ Len(calls) < MaxCalls
    /\ calls' = Append(calls,
            [op |-> "process_approval", body |-> a, pc |-> "select_status",
             details |-> NoDetails, response |-> NoResponse])
    /\ UNCHANGED <<db_requests, provisioned_databases, now>>

\* mutant: the SELECT takes a row lock (FOR UPDATE) that a call in progress
\* on the same request holds until it returns
SelectStatusForUpdate(c) ==
    /\ calls[c].pc = "select_status"
    /\ \A d \in Calls \ {c} :
         (calls[d].op = "process_approval"
            /\ calls[d].body.request_id = calls[c].body.request_id)
           => calls[d].pc \in {"select_status", "done"}
    /\ LET result == SelectedStatus(calls[c].body.request_id) IN
       IF result = NULL
       THEN calls' = [calls EXCEPT ![c].pc = "done", ![c].response = NotFound]
       ELSE IF NotPending(result[1])
       THEN calls' = [calls EXCEPT ![c].pc = "done",
                                   ![c].response = InvalidTransition(result[1])]
       ELSE calls' = [calls EXCEPT ![c].pc = "update_decision"]
    /\ UNCHANGED <<db_requests, provisioned_databases, now>>

\* SELECT status FROM db_requests WHERE request_id = ..., and the two checks
SelectStatus(c) ==
    /\ calls[c].pc = "select_status"
    /\ LET result == SelectedStatus(calls[c].body.request_id) IN
       IF result = NULL
       THEN calls' = [calls EXCEPT ![c].pc = "done", ![c].response = NotFound]
       ELSE IF NotPending(result[1])
       THEN calls' = [calls EXCEPT ![c].pc = "done",
                                   ![c].response = InvalidTransition(result[1])]
       ELSE calls' = [calls EXCEPT ![c].pc = "update_decision"]
    /\ UNCHANGED <<db_requests, provisioned_databases, now>>

\* UPDATE db_requests SET status = new_status, ...; a reject returns here
UpdateDecision(c) ==
    /\ calls[c].pc = "update_decision"
    /\ LET a == calls[c].body IN
       /\ db_requests' = [db_requests EXCEPT ![a.request_id] = DecisionUpdate(@, a)]
       /\ IF ShouldProvision(a.action)
          THEN calls' = [calls EXCEPT ![c].pc = "select_details"]
          ELSE calls' = [calls EXCEPT ![c].pc = "done",
                                      ![c].response = ApprovalResponse(a)]
    /\ now' = Advance(now)
    /\ UNCHANGED provisioned_databases

\* _provision_database: SELECT team_name, db_type, environment, size
SelectDetails(c) ==
    /\ calls[c].pc = "select_details"
    /\ LET row == db_requests[calls[c].body.request_id] IN
       calls' = [calls EXCEPT ![c].pc = "insert_database",
                              ![c].details =
                     [team_name |-> row.team_name, db_type |-> row.db_type,
                      environment |-> row.environment, size |-> row.size]]
    /\ UNCHANGED <<db_requests, provisioned_databases, now>>

\* _provision_database: INSERT INTO provisioned_databases
InsertDatabase(c) ==
    /\ calls[c].pc = "insert_database"
    /\ provisioned_databases' =
         Append(provisioned_databases,
                NewDatabaseRow(calls[c].body.request_id, calls[c].details))
    /\ calls' = [calls EXCEPT ![c].pc = "update_provisioned"]
    /\ now' = Advance(now)
    /\ UNCHANGED db_requests

\* mutant: the final UPDATE without its WHERE clause
UpdateProvisionedEveryRow(c) ==
    /\ calls[c].pc = "update_provisioned"
    /\ db_requests' = [r \in DOMAIN db_requests |-> ProvisionedUpdate(db_requests[r])]
    /\ calls' = [calls EXCEPT ![c].pc = "done",
                               ![c].response = ApprovalResponse(calls[c].body)]
    /\ now' = Advance(now)
    /\ UNCHANGED provisioned_databases

\* _provision_database: UPDATE db_requests SET status = 'provisioned', and
\* the return of process_approval
UpdateProvisioned(c) ==
    /\ calls[c].pc = "update_provisioned"
    /\ LET a == calls[c].body IN
       /\ db_requests' = [db_requests EXCEPT ![a.request_id] = ProvisionedUpdate(@)]
       /\ calls' = [calls EXCEPT ![c].pc = "done",
                                  ![c].response = ApprovalResponse(a)]
    /\ now' = Advance(now)
    /\ UNCHANGED provisioned_databases

\* the requests a caller of /approve can name: one that exists or one that
\* does not
Nameable == DOMAIN db_requests \cup {UnknownId}

\* the endpoints run on a thread pool: calls arrive at any time and the
\* statements of the calls in progress interleave
Next ==
    \/ \E request \in DatabaseRequests : CreateRequest(request)
    \/ \E r \in Nameable : \E a \in ApprovalActions(r) : ApproveRequest(a)
    \/ \E c \in Calls : SelectStatus(c)
    \/ \E c \in Calls : UpdateDecision(c)
    \/ \E c \in Calls : SelectDetails(c)
    \/ \E c \in Calls : InsertDatabase(c)
    \/ \E c \in Calls : UpdateProvisioned(c)

Spec == Init /\ [][Next]_vars

\* no call is in progress
Quiescent == \A c \in Calls : calls[c].pc = "done"

\* the calls arrive one after the other, each when no call is in progress:
\* every call runs alone
NextSeq ==
    \/ \E request \in DatabaseRequests : Quiescent /\ CreateRequest(request)
    \/ \E r \in Nameable : \E a \in ApprovalActions(r) : Quiescent /\ ApproveRequest(a)
    \/ \E c \in Calls : SelectStatus(c)
    \/ \E c \in Calls : UpdateDecision(c)
    \/ \E c \in Calls : SelectDetails(c)
    \/ \E c \in Calls : InsertDatabase(c)
    \/ \E c \in Calls : UpdateProvisioned(c)

SeqSpec == Init /\ [][NextSeq]_vars

\* DatabaseRequest bodies that cover every documented size and db_type: the
\* three of the demo client and the one outside the documented values
CatalogRequests ==
    DatabaseRequests \cup
    { [team_name |-> "backend-team", db_type |-> "mysql",
       environment |-> "dev", size |-> "small", purpose |-> "Development testing"],
      [team_name |-> "cache-team", db_type |-> "redis",
       environment |-> "staging", size |-> "medium", purpose |-> "Session caching"] }

\* the approve body of the demo client
Approve(r) == { a \in ApprovalActions(r) : a.action = "approve" }

\* the thread pool serving submits of every kind of request and approvals
NextCatalog ==
    \/ \E request \in CatalogRequests : CreateRequest(request)
    \/ \E r \in Nameable : \E a \in Approve(r) : ApproveRequest(a)
    \/ \E c \in Calls : SelectStatus(c)
    \/ \E c \in Calls : UpdateDecision(c)
    \/ \E c \in Calls : SelectDetails(c)
    \/ \E c \in Calls : InsertDatabase(c)
    \/ \E c \in Calls : UpdateProvisioned(c)

CatalogSpec == Init /\ [][NextCatalog]_vars

(* ------------------------------- listing ------------------------------- *)
\* LIMIT 50
PageSize == 50

\* a timestamp as a number, and datetime.isoformat() of a column value
Time(ts) == ts[1]
isoformat(ts) == IF ts = NULL THEN NULL ELSE Some(<<"iso", Time(ts)>>)

\* float(row[6]): the stored amounts are whole, a float holds them exactly
float(amount) == amount

\* round(total_cost, 2): a sum of whole amounts is whole
round2(total) == total

\* row j comes before row k in ORDER BY created_at DESC (rows of one
\* timestamp in the order of their keys)
Before(j, k, rows) ==
    \/ Time(rows[j].created_at) > Time(rows[k].created_at)
    \/ Time(rows[j].created_at) = Time(rows[k].created_at) /\ j < k

\* ORDER BY created_at DESC over the rows `keys` of table `rows`: each row
\* at the place given by the number of rows that come before it
OrderByCreatedDesc(keys, rows) ==
    LET placed ==
            { <<Cardinality({ j \in keys : Before(j, k, rows) }) + 1, k>> : k \in keys }
    IN [i \in 1..Cardinality(keys) |-> (CHOOSE p \in placed : p[1] = i)[2]]

\* LIMIT n
Limit(seq, n) == IF Len(seq) <= n THEN seq ELSE SubSeq(seq, 1, n)

\* if status: an absent or empty filter is falsy
Truthy(status) == status # NULL /\ status # Some("")

\* mutant: ORDER BY created_at, oldest first
SelectRequestsAscending(status) ==
    LET desc == IF Truthy(status)
                THEN OrderByCreatedDesc(
                       { r \in DOMAIN db_requests : db_requests[r].status = status[1] },
                       db_requests)
                ELSE Limit(OrderByCreatedDesc(DOMAIN db_requests, db_requests), PageSize)
    IN [i \in 1..Len(desc) |-> desc[Len(desc) + 1 - i]]

\* the request ids the SELECT of get_requests returns, in order
SelectRequests(status) ==
    IF Truthy(status)
    THEN OrderByCreatedDesc(
           { r \in DOMAIN db_requests : db_requests[r].status = status[1] },
           db_requests)
    ELSE Limit(OrderByCreatedDesc(DOMAIN db_requests, db_requests), PageSize)

\* get_requests: one dict per row
get_requests(status) ==
    LET ids == SelectRequests(status) IN
    [i \in 1..Len(ids) |->
        LET row == db_requests[ids[i]] IN
        [request_id |-> ids[i], team_name |-> row.team_name,
         db_type |-> row.db_type, environment |-> row.environment,
         size |-> row.size, status |-> row.status,
         created_at |-> isoformat(row.created_at), purpose |-> row.purpose]]

\* mutant: the join also asks for a provisioned request
JoinedActiveProvisioned ==
    { i \in 1..Len(provisioned_databases) :
        /\ provisioned_databases[i].status = "active"
        /\ provisioned_databases[i].request_id \in DOMAIN db_requests
        /\ db_requests[provisioned_databases[i].request_id].status = "provisioned" }

\* FROM provisioned_databases d JOIN db_requests r ON d.request_id =
\* r.request_id WHERE d.status = 'active'
JoinedActive ==
    { i \in 1..Len(provisioned_databases) :
        /\ provisioned_databases[i].status = "active"
        /\ provisioned_databases[i].request_id \in DOMAIN db_requests }

\* get_databases: one dict per row
get_databases ==
    LET ids == OrderByCreatedDesc(JoinedActive, provisioned_databases) IN
    [i \in 1..Len(ids) |->
        LET d == provisioned_databases[ids[i]] IN
        [db_id |-> d.db_id, db_name |-> d.db_name, db_type |-> d.db_type,
         environment |-> d.environment, host |-> d.host, port |-> d.port,
         estimated_monthly_cost |-> float(d.estimated_cost),
         status |-> d.status, created_at |-> isoformat(d.created_at),
         team_name |-> db_requests[d.request_id].team_name]]

\* sum(db['estimated_monthly_cost'] for db in databases)
RECURSIVE sum(_)
sum(databases) ==
    IF databases = <<>> THEN 0
    ELSE Head(databases).estimated_monthly_cost + sum(Tail(databases))

\* GET /databases: list_databases
list_databases ==
    LET databases == get_databases IN
    [status_code |-> 200, databases |-> databases,
     total_count |-> Len(databases),
     total_monthly_cost |-> round2(sum(databases))]

\* GET /requests: list_requests
list_requests(status) == [status_code |-> 200, requests |-> get_requests(status)]

\* GET /requests?status=...: one SELECT
ListRequests(status) ==
    /\ Len(calls) < MaxCalls
    /\ calls' = Append(calls,
            [op |-> "get_requests", body |-> [status |-> status], pc |-> "done",
             details |-> NoDetails, response |-> list_requests(status)])
    /\ UNCHANGED <<db_requests, provisioned_databases, now>>

\* GET /databases: one SELECT
ListDatabases ==
    /\ Len(calls) < MaxCalls
    /\ calls' = Append(calls,
            [op |-> "get_databases", body |-> NULL, pc |-> "done",
             details |-> NoDetails, response |-> list_databases])
    /\ UNCHANGED <<db_requests, provisioned_databases, now>>

\* the status filters a caller passes: none, an empty one, a status
StatusFilters == {NULL, Some(""), Some("pending"), Some("provisioned")}

\* the tables survive a restart of the service (CREATE TABLE IF NOT EXISTS):
\* the service starts on a store that holds the pending requests of earlier
\* runs, here one less than a page of them
Preloaded == PageSize - 1

StoredRequest(id) ==
    [team_name |-> "data-engineering", db_type |-> "postgres",
     environment |-> "prod", size |-> "large", purpose |-> "Analytics warehouse",
     status |-> "pending", created_at |-> Some(id), approved_at |-> NULL,
     provisioned_at |-> NULL, approver |-> NULL, approval_notes |-> NULL]

InitList ==
    /\ db_requests = [id \in 1..Preloaded |-> StoredRequest(id)]
    /\ now = Preloaded + 1
    /\ provisioned_databases = <<>>
    /\ calls = <<>>

\* the request a caller of /approve names here: the newest
Newest == {Cardinality(DOMAIN db_requests)}

\* the first DatabaseRequest body of the demo client
FirstRequest == { request \in DatabaseRequests : request.size = "large" }

\* the approve and the reject body of the demo client
ApproveOrReject(r) == { a \in ApprovalActions(r) : a.action \in {"approve", "reject"} }

\* the thread pool serving submits, decisions and GET /databases
NextDatabases ==
    \/ \E request \in DatabaseRequests : CreateRequest(request)
    \/ \E r \in DOMAIN db_requests : \E a \in ApproveOrReject(r) : ApproveRequest(a)
    \/ \E c \in Calls : SelectStatus(c)
    \/ \E c \in Calls : UpdateDecision(c)
    \/ \E c \in Calls : SelectDetails(c)
    \/ \E c \in Calls : InsertDatabase(c)
    \/ \E c \in Calls : UpdateProvisioned(c)
    \/ ListDatabases

DatabasesSpec == Init /\ [][NextDatabases]_vars

\* GET /requests arrives at any time, between the statements of a decision
\* too; submits and decisions arrive one after the other
NextRequests ==
    \/ \E request \in FirstRequest : Quiescent /\ CreateRequest(request)
    \/ \E r \in Newest : \E a \in Approve(r) : Quiescent /\ ApproveRequest(a)
    \/ \E c \in Calls : SelectStatus(c)
    \/ \E c \in Calls : UpdateDecision(c)
    \/ \E c \in Calls : SelectDetails(c)
    \/ \E c \in Calls : InsertDatabase(c)
    \/ \E c \in Calls : UpdateProvisioned(c)
    \/ \E status \in StatusFilters : ListRequests(status)

RequestsSpec == InitList /\ [][NextRequests]_vars

(* ------------------------- storage failures ---------------------------- *)
\* an exception of cursor.execute leaves process_approval uncaught: the
\* endpoint answers 500
InternalServerError == [status_code |-> 500, detail |-> "Internal Server Error"]

\* _provision_database: the INSERT raises; autocommit has committed the
\* UPDATE to approved before it, and nothing undoes it
InsertDatabaseRaises(c) ==
    /\ calls[c].pc = "insert_database"
    /\ calls' = [calls EXCEPT ![c].pc = "done", ![c].response = InternalServerError]
    /\ UNCHANGED <<db_requests, provisioned_databases, now>>

\* _provision_database: the UPDATE to provisioned raises; autocommit has
\* committed the INSERT before it, and nothing undoes it
UpdateProvisionedRaises(c) ==
    /\ calls[c].pc = "update_provisioned"
    /\ calls' = [calls EXCEPT ![c].pc = "done", ![c].response = InternalServerError]
    /\ UNCHANGED <<db_requests, provisioned_databases, now>>

\* the thread pool of Next, on a store whose writes can fail
NextFail ==
    \/ \E request \in DatabaseRequests : CreateRequest(request)
    \/ \E r \in Nameable : \E a \in ApprovalActions(r) : ApproveRequest(a)
    \/ \E c \in Calls : SelectStatus(c)
    \/ \E c \in Calls : UpdateDecision(c)
    \/ \E c \in Calls : SelectDetails(c)
    \/ \E c \in Calls : InsertDatabase(c)
    \/ \E c \in Calls : UpdateProvisioned(c)
    \/ \E c \in Calls : InsertDatabaseRaises(c)
    \/ \E c \in Calls : UpdateProvisionedRaises(c)

FailSpec == Init /\ [][NextFail]_vars

(* ------------------------------ progress ------------------------------- *)
\* the next statement of call c
Step(c) ==
    /\ c \in Calls
    /\ \/ SelectStatus(c)
       \/ UpdateDecision(c)
       \/ SelectDetails(c)
       \/ InsertDatabase(c)
       \/ UpdateProvisioned(c)

\* submits of the demo client's first request and concurrent approvals and
\* rejections of the requests that exist
NextLive ==
    \/ \E request \in FirstRequest : CreateRequest(request)
    \/ \E r \in DOMAIN db_requests : \E a \in ApproveOrReject(r) : ApproveRequest(a)
    \/ \E c \in Calls : SelectStatus(c)
    \/ \E c \in Calls : UpdateDecision(c)
    \/ \E c \in Calls : SelectDetails(c)
    \/ \E c \in Calls : InsertDatabase(c)
    \/ \E c \in Calls : UpdateProvisioned(c)

\* a worker thread runs its handler to the end: a call whose next statement
\* can execute executes it (no statement waits, no storage operation fails)
LiveSpec == Init /\ [][NextLive]_vars /\ \A c \in 1..MaxCalls : WF_vars(Step(c))

\* all four endpoints on the thread pool: submits, approvals and rejections
\* of known and unknown ids, and both listings, arriving at any time
NextService ==
    \/ \E request \in FirstRequest : CreateRequest(request)
    \/ \E r \in Nameable : \E a \in ApproveOrReject(r) : ApproveRequest(a)
    \/ \E c \in Calls : SelectStatus(c)
    \/ \E c \in Calls : UpdateDecision(c)
    \/ \E c \in Calls : SelectDetails(c)
    \/ \E c \in Calls : InsertDatabase(c)
    \/ \E c \in Calls : UpdateProvisioned(c)
    \/ ListRequests(NULL)
    \/ ListDatabases

ServiceSpec == Init /\ [][NextService]_vars

(* ------------------------------- claims -------------------------------- *)
\* the process_approval calls that name request r
Decides(r) ==
    { c \in Calls : calls[c].op = "process_approval" /\ calls[c].body.request_id = r }

\* call c has returned a result (no HTTPException)
Succeeded(c) == calls[c].pc = "done" /\ calls[c].response.status_code = 200

\* call c is a process_approval call that returned a result
Decided(c) == calls[c].op = "process_approval" /\ Succeeded(c)

\* call c executes its SELECT status in this step
ChecksStatus(c) == calls[c].pc = "select_status" /\ calls'[c].pc # "select_status"

\* call c returns or raises in this step
Returns(c) == calls[c].pc # "done" /\ calls'[c].pc = "done"

\* C1: of the decide calls issued on one request, whatever their
\* interleaving, exactly one succeeds and every other fails with
\* InvalidTransition, and the request never has two ProvisionedDatabase
\* records.  (The claim; the code violates it.)
C1_ExactlyOneDecideSucceeds ==
    \A r \in DOMAIN db_requests :
        /\ Cardinality(DatabasesOf(r)) <= 1
        /\ (Decides(r) # {} /\ \A c \in Decides(r) : calls[c].pc = "done") =>
              /\ Cardinality({ c \in Decides(r) : Succeeded(c) }) = 1
              /\ \A c \in Decides(r) : calls[c].response.status_code \in {200, 400}

\* C2: an approve that ran alone on a pending request found the request
\* without a ProvisionedDatabase record and leaves it provisioned with exactly
\* one record that references it.
C2_ApproveAloneProvisions ==
    \A c \in Calls :
        LET r == calls[c].body.request_id IN
        /\ (calls[c].op = "process_approval" /\ calls[c].pc = "update_decision")
              => DatabasesOf(r) = {}
        /\ (Decided(c) /\ calls[c].body.action = "approve")
              => /\ db_requests[r].status = "provisioned"
                 /\ Cardinality(DatabasesOf(r)) = 1

C2_Witness ==
    \E c \in Calls :
        /\ Decided(c) /\ calls[c].body.action = "approve"
        /\ db_requests[calls[c].body.request_id].status = "provisioned"
        /\ DatabasesOf(calls[c].body.request_id) # {}

\* C3: a reject that ran alone on a pending request leaves it rejected, with
\* no ProvisionedDatabase record and with provisioned_at unset.
C3_RejectAloneRejects ==
    \A c \in Calls :
        (Decided(c) /\ calls[c].body.action = "reject") =>
            LET r == calls[c].body.request_id IN
            /\ db_requests[r].status = "rejected"
            /\ DatabasesOf(r) = {}
            /\ db_requests[r].provisioned_at = NULL

C3_Witness ==
    \E c \in Calls :
        /\ Decided(c) /\ calls[c].body.action = "reject"
        /\ db_requests[calls[c].body.request_id].status = "rejected"

\* C4: when a decide call returns a result, the status in the result is the
\* status stored for the request at that moment.  (The claim; the code
\* violates it.)
C4_ResultIsStoredStatus ==
    [][\A c \in Calls :
          (calls[c].op = "process_approval" /\ Returns(c)
             /\ calls'[c].response.status_code = 200)
          => calls'[c].response.status
                = db_requests'[calls[c].body.request_id].status]_vars

\* the status a completed decide call left on its request
LeftBy(c) == IF calls[c].body.action = "approve" THEN "provisioned" ELSE "rejected"

\* C5: a decide call on a request on which a decide call has completed
\* fails with InvalidTransition, its message reports the status the first
\* call left, and it changes no Request and no ProvisionedDatabase record.
C5_SecondDecideFails ==
    [][\A c \in Calls : \A first \in Calls :
          (/\ calls[c].op = "process_approval" /\ ChecksStatus(c)
           /\ Decided(first)
           /\ calls[first].body.request_id = calls[c].body.request_id)
          => /\ calls'[c].pc = "done"
             /\ calls'[c].response.status_code = 400
             /\ calls'[c].response = InvalidTransition(LeftBy(first))
             /\ db_requests' = db_requests
             /\ provisioned_databases' = provisioned_databases]_vars

C5_Witness ==
    \E c \in Calls : \E first \in Calls :
        /\ first < c
        /\ Decided(first)
        /\ calls[c].op = "process_approval" /\ calls[c].pc = "done"
        /\ calls[c].body.request_id = calls[first].body.request_id
        /\ calls[c].response = InvalidTransition(LeftBy(first))

\* C6: a decide call that names no stored request fails with NotFound and
\* changes no Request and no ProvisionedDatabase record.
C6_UnknownIdNotFound ==
    [][\A c \in Calls :
          (/\ calls[c].op = "process_approval" /\ ChecksStatus(c)
           /\ calls[c].body.request_id \notin DOMAIN db_requests)
          => /\ calls'[c].pc = "done"
             /\ calls'[c].response.status_code = 404
             /\ db_requests' = db_requests
             /\ provisioned_databases' = provisioned_databases]_vars

C6_Witness ==
    \E c \in Calls :
        /\ calls[c].op = "process_approval" /\ calls[c].pc = "done"
        /\ calls[c].body.request_id \notin DOMAIN db_requests
        /\ calls[c].response.status_code = 404
        /\ provisioned_databases # <<>>

\* C7: in every state a request is provisioned iff exactly one
\* ProvisionedDatabase record references it, and a request with another
\* status has none.  (The claim; the code violates it.)
C7_ProvisionedIffOneDatabase ==
    \A r \in DOMAIN db_requests :
        IF db_requests[r].status = "provisioned"
        THEN Cardinality(DatabasesOf(r)) = 1
        ELSE DatabasesOf(r) = {}

\* the status changes of the lifecycle
Transitions ==
    { <<"pending", "approved">>, <<"pending", "rejected">>,
      <<"approved", "provisioned">> }

\* C8: the only status changes of a request are pending to approved,
\* pending to rejected and approved to provisioned.  (The claim; the code
\* violates it.)
C8_OnlyLifecycleTransitions ==
    [][\A r \in DOMAIN db_requests :
          db_requests'[r].status # db_requests[r].status
          => <<db_requests[r].status, db_requests'[r].status>> \in Transitions]_vars

\* C9: in every state provisioned_at is set iff the status is provisioned.
\* (The claim; the code violates it.)
C9_ProvisionedAtIffProvisioned ==
    \A r \in DOMAIN db_requests :
        db_requests[r].provisioned_at # NULL <=> db_requests[r].status = "provisioned"

\* C10: in every state approved_at is set iff the status is approved,
\* rejected or provisioned, and unset exactly while the request is pending.
C10_ApprovedAtIffDecided ==
    \A r \in DOMAIN db_requests :
        /\ db_requests[r].approved_at # NULL
              <=> db_requests[r].status \in {"approved", "rejected", "provisioned"}
        /\ db_requests[r].approved_at = NULL <=> db_requests[r].status = "pending"

C10_Witness ==
    \E r \in DOMAIN db_requests : \E q \in DOMAIN db_requests :
        /\ db_requests[r].status = "provisioned" /\ db_requests[r].approved_at # NULL
        /\ db_requests[q].status = "pending" /\ db_requests[q].approved_at = NULL

\* C11: once approved_at, approver and approval_notes of a request are
\* written, no step changes them.  (The claim; the code violates it.)
C11_DecisionWrittenOnce ==
    [][\A r \in DOMAIN db_requests :
          db_requests[r].approved_at # NULL
          => /\ db_requests'[r].approved_at = db_requests[r].approved_at
             /\ db_requests'[r].approver = db_requests[r].approver
             /\ db_requests'[r].approval_notes = db_requests[r].approval_notes]_vars

\* a call arrives in this step, and it is a create_request call
Submits == Len(calls') = Len(calls) + 1 /\ calls'[Len(calls')].op = "create_request"

\* C12: every submit returns a result and creates a Request that is pending,
\* has no approver, approved_at or provisioned_at, carries the submitted
\* fields, and has an id no stored request has.
C12_SubmitCreatesPending ==
    [][Submits =>
          LET call == calls'[Len(calls')]
              id == call.response.request_id
          IN /\ call.pc = "done"
             /\ call.response.status_code = 200
             /\ call.response.status = "pending"
             /\ id \notin DOMAIN db_requests
             /\ DOMAIN db_requests' = DOMAIN db_requests \cup {id}
             /\ db_requests'[id].status = "pending"
             /\ db_requests'[id].approver = NULL
             /\ db_requests'[id].approval_notes = NULL
             /\ db_requests'[id].approved_at = NULL
             /\ db_requests'[id].provisioned_at = NULL
             /\ db_requests'[id].created_at # NULL
             /\ db_requests'[id].team_name = call.body.team_name
             /\ db_requests'[id].size = call.body.size]_vars

C12_Witness ==
    \E c \in Calls : \E d \in Calls :
        /\ c < d
        /\ calls[c].op = "create_request" /\ calls[d].op = "create_request"
        /\ calls[c].response.request_id # calls[d].response.request_id
        /\ db_requests[calls[c].response.request_id].status = "provisioned"
        /\ db_requests[calls[d].response.request_id].status = "pending"

\* the documented cost and port tables
DocumentedCost == [small |-> 50, medium |-> 150, large |-> 500]
DocumentedPort == [postgres |-> 5432, mysql |-> 3306, redis |-> 6379]
CostOf(size) == IF size \in DOMAIN DocumentedCost THEN DocumentedCost[size] ELSE 100
PortOf(db_type) ==
    IF db_type \in DOMAIN DocumentedPort THEN DocumentedPort[db_type] ELSE 5432

\* C13: every ProvisionedDatabase record is active, has the db_type and
\* environment of its request, the cost of the request's size (small 50,
\* medium 150, large 500, otherwise 100) and the port of the request's
\* db_type (postgres 5432, mysql 3306, redis 6379, otherwise 5432).
C13_DatabaseDerivedFromRequest ==
    \A i \in 1..Len(provisioned_databases) :
        LET d == provisioned_databases[i]
            q == db_requests[d.request_id]
        IN /\ d.status = "active"
           /\ d.db_type = q.db_type
           /\ d.environment = q.environment
           /\ d.estimated_cost = CostOf(q.size)
           /\ d.port = PortOf(q.db_type)

C13_Witness ==
    \E i \in 1..Len(provisioned_databases) : \E j \in 1..Len(provisioned_databases) :
        /\ db_requests[provisioned_databases[i].request_id].size = "xlarge"
        /\ provisioned_databases[i].estimated_cost = 100
        /\ provisioned_databases[i].port = 5432
        /\ db_requests[provisioned_databases[j].request_id].db_type = "redis"
        /\ provisioned_databases[j].estimated_cost = 150
        /\ provisioned_databases[j].port = 6379

\* a call arrives in this step, and it is a get_databases call
ListsDatabases == Len(calls') = Len(calls) + 1 /\ calls'[Len(calls')].op = "get_databases"

\* the stored database records that are active
ActiveDatabases ==
    { i \in 1..Len(provisioned_databases) : provisioned_databases[i].status = "active" }

\* the sum of the estimated monthly costs of a set of stored database records
RECURSIVE CostSum(_)
CostSum(ds) ==
    IF ds = {} THEN 0
    ELSE LET d == CHOOSE i \in ds : TRUE
         IN provisioned_databases[d].estimated_cost + CostSum(ds \ {d})

\* C14: listing databases returns every active database record, most
\* recently created first, with a count equal to the number of records
\* returned and a total monthly cost equal to the sum of their estimated
\* costs, and changes no stored record.
C14_ListDatabases ==
    [][ListsDatabases =>
          LET response == calls'[Len(calls')].response
              listed == { response.databases[i].db_id : i \in 1..Len(response.databases) }
          IN /\ listed = { provisioned_databases[i].db_id : i \in ActiveDatabases }
             /\ Len(response.databases) = Cardinality(ActiveDatabases)
             /\ \A i \in 1..Len(response.databases) : \E d \in ActiveDatabases :
                  /\ response.databases[i].db_id = provisioned_databases[d].db_id
                  /\ response.databases[i].db_name = provisioned_databases[d].db_name
                  /\ response.databases[i].estimated_monthly_cost
                       = provisioned_databases[d].estimated_cost
                  /\ i < Len(response.databases) =>
                       \E e \in ActiveDatabases :
                         /\ response.databases[i + 1].db_id = provisioned_databases[e].db_id
                         /\ Time(provisioned_databases[d].created_at)
                              >= Time(provisioned_databases[e].created_at)
             /\ response.total_count = Len(response.databases)
             /\ response.total_monthly_cost = CostSum(ActiveDatabases)
             /\ db_requests' = db_requests
             /\ provisioned_databases' = provisioned_databases]_vars

C14_Witness ==
    \E c \in Calls :
        /\ calls[c].op = "get_databases"
        /\ calls[c].response.total_count = 2
        /\ calls[c].response.total_monthly_cost > 0
        /\ calls[c].response.databases[1].db_id # calls[c].response.databases[2].db_id
        /\ \E r \in DOMAIN db_requests : db_requests[r].status = "approved"

\* a call arrives in this step, and it is a get_requests call
ListsRequests == Len(calls') = Len(calls) + 1 /\ calls'[Len(calls')].op = "get_requests"

\* the request ids of a get_requests result
ListedIds(requests) == { requests[i].request_id : i \in 1..Len(requests) }

\* a get_requests result lists no request twice, most recently created first,
\* each with its stored status
ListedInOrder(requests) ==
    /\ Cardinality(ListedIds(requests)) = Len(requests)
    /\ \A i \in 1..Len(requests) :
         /\ requests[i].request_id \in DOMAIN db_requests
         /\ requests[i].status = db_requests[requests[i].request_id].status
         /\ i < Len(requests) =>
              Time(db_requests[requests[i].request_id].created_at)
                >= Time(db_requests[requests[i + 1].request_id].created_at)

\* a get_requests result is exactly the requests of status s
ListsStatus(requests, s) ==
    ListedIds(requests) = { r \in DOMAIN db_requests : db_requests[r].status = s }

\* a get_requests result is the most recently created requests, up to 50
ListsMostRecent(requests) ==
    /\ Len(requests) = IF Cardinality(DOMAIN db_requests) < 50
                       THEN Cardinality(DOMAIN db_requests) ELSE 50
    /\ \A r \in ListedIds(requests) : \A q \in DOMAIN db_requests \ ListedIds(requests) :
         Time(db_requests[r].created_at) >= Time(db_requests[q].created_at)

\* C15: with a status filter get_requests returns exactly the
\* requests of that status, without one the most recent up to 50, in both
\* cases most recent first and without changing a stored record.  (The
\* code violates it for an empty filter.)
C15_ListRequestsAsClaimed ==
    [][ListsRequests =>
          LET call == calls'[Len(calls')] IN
          /\ ListedInOrder(call.response.requests)
          /\ IF call.body.status # NULL
             THEN ListsStatus(call.response.requests, call.body.status[1])
             ELSE ListsMostRecent(call.response.requests)
          /\ db_requests' = db_requests
          /\ provisioned_databases' = provisioned_databases]_vars

\* what get_requests does satisfy: with a non-empty status filter it
\* returns exactly the requests of that status; without a filter or with an
\* empty one it returns the most recent requests up to 50; in both cases
\* most recent first and without changing a stored record.
C15_ListRequests ==
    [][ListsRequests =>
          LET call == calls'[Len(calls')] IN
          /\ ListedInOrder(call.response.requests)
          /\ IF call.body.status \notin {NULL, Some("")}
             THEN ListsStatus(call.response.requests, call.body.status[1])
             ELSE ListsMostRecent(call.response.requests)
          /\ db_requests' = db_requests
          /\ provisioned_databases' = provisioned_databases]_vars

C15_Witness ==
    \E c \in Calls :
        /\ calls[c].op = "get_requests"
        /\ calls[c].body.status = Some("")
        /\ Len(calls[c].response.requests) = 50
        /\ Cardinality(DOMAIN db_requests) = 51
        /\ calls[c].response.requests[1].request_id = 51

\* the provisioning of request r was left half done: a decide call on r
\* ended in a storage failure, no decide call on r is in progress other
\* than c, and r reads approved
PartlyProvisioned(r, c) ==
    /\ db_requests[r].status = "approved"
    /\ \E d \in Decides(r) : calls[d].pc = "done" /\ calls[d].response.status_code = 500
    /\ \A d \in Decides(r) \ {c} : calls[d].pc = "done"

\* C16: when provisioning completed only partially (the insert succeeded
\* and the update to provisioned failed, or the write of approved succeeded
\* and the insert failed), the next decide call that reads the request
\* reports it as requiring manual reconciliation, an answer other than the
\* InvalidTransition given for a decided request, and corrects nothing.
\* (The claim; the code violates it.)
C16_PartialProvisioningReported ==
    [][\A c \in Calls :
         LET r == calls[c].body.request_id IN
         (/\ calls[c].op = "process_approval"
          /\ ChecksStatus(c)
          /\ r \in DOMAIN db_requests
          /\ PartlyProvisioned(r, c))
         => /\ calls'[c].pc = "done"
            /\ calls'[c].response.status_code # 200
            /\ calls'[c].response # InvalidTransition(db_requests[r].status)
            /\ db_requests' = db_requests
            /\ provisioned_databases' = provisioned_databases]_vars

\* C17: whenever a request becomes approved it eventually becomes
\* provisioned, given that every call keeps taking steps and no storage
\* operation fails, and no request reads approved once every decide call on
\* it has returned, also when decide calls on the request interleave.
C17_ApprovedLeadsToProvisioned ==
    /\ \A r \in RequestIds :
         (r \in DOMAIN db_requests /\ db_requests[r].status = "approved")
           ~> (r \in DOMAIN db_requests /\ db_requests[r].status = "provisioned")
    /\ [](\A r \in DOMAIN db_requests :
            (\A c \in Decides(r) : calls[c].pc = "done")
              => db_requests[r].status # "approved")

C17_Witness ==
    \E r \in DOMAIN db_requests :
        /\ db_requests[r].status = "provisioned"
        /\ \E c \in Decides(r) : Decided(c) /\ calls[c].body.action = "approve"
        /\ \E c \in Decides(r) : Decided(c) /\ calls[c].body.action = "reject"
                                  /\ db_requests[r].approver = Some(calls[c].body.approver)

\* the place of a statement in process_approval
Rank(pc) ==
    CASE pc = "select_status" -> 0
      [] pc = "update_decision" -> 1
      [] pc = "select_details" -> 2
      [] pc = "insert_database" -> 3
      [] pc = "update_provisioned" -> 4
      [] pc = "done" -> 5

\* C18: every decide call returns, with a result, NotFound or
\* InvalidTransition, after a bounded number of storage steps whatever
\* submit, decide and list calls run concurrently on the same or other
\* request ids: a call that has not returned can always execute its next
\* statement (it waits on no other call, no interleaving deadlocks), every
\* statement moves the call forward, so that it returns within five, and a
\* call that has returned holds one of the three answers.
C18_DecideReturns ==
    /\ [](\A c \in Calls :
            /\ calls[c].pc # "done" => ENABLED Step(c)
            /\ (calls[c].op = "process_approval" /\ calls[c].pc = "done")
                 => \/ calls[c].response = ApprovalResponse(calls[c].body)
                    \/ calls[c].response = NotFound
                    \/ \E s \in {"approved", "rejected", "provisioned"} :
                         calls[c].response = InvalidTransition(s))
    /\ [][\A c \in Calls :
            calls'[c] # calls[c] => Rank(calls'[c].pc) > Rank(calls[c].pc)]_vars

C18_Witness ==
    \E r \in DOMAIN db_requests : \E c, d \in Decides(r) :
        /\ calls[c].pc = "update_provisioned"
        /\ calls[d].pc = "insert_database"
        /\ \E l \in Calls : l > c /\ l > d /\ calls[l].op = "get_databases"
                             /\ calls[l].response.total_count = 1

\* call c executes its UPDATE of the decision in this step
WritesDecision(c) == calls[c].pc = "update_decision" /\ calls'[c].pc # "update_decision"

\* C19: a decide call that found its request pending and whose action is
\* anything other than "approve" (reject or an unrecognized string) takes the reject
\* path: the request becomes rejected, approver, notes and approved_at are
\* recorded, the call returns rejected, and no ProvisionedDatabase record
\* is created.
C19_OtherActionsReject ==
    [][\A c \in Calls :
         LET a == calls[c].body
             r == calls[c].body.request_id
         IN (WritesDecision(c) /\ a.action # "approve")
            => /\ db_requests'[r].status = "rejected"
               /\ db_requests'[r].approver = Some(a.approver)
               /\ db_requests'[r].approval_notes = a.notes
               /\ db_requests'[r].approved_at = Some(now)
               /\ db_requests'[r].provisioned_at = db_requests[r].provisioned_at
               /\ calls'[c].pc = "done"
               /\ calls'[c].response.status_code = 200
               /\ calls'[c].response.status = "rejected"
               /\ provisioned_databases' = provisioned_databases]_vars

C19_Witness ==
    \E c \in Calls :
        /\ Decided(c)
        /\ calls[c].body.action = "hold"
        /\ db_requests[calls[c].body.request_id].status = "rejected"
        /\ db_requests[calls[c].body.request_id].approval_notes = NULL
        /\ DatabasesOf(calls[c].body.request_id) = {}

\* the fields of a Request that no operation writes after its creation
Immutable(row) ==
    <<row.team_name, row.db_type, row.environment, row.size, row.purpose, row.created_at>>

\* a decide call on request r executes a statement in this step
DecideSteps(r) == \E c \in Decides(r) : calls'[c] # calls[c]

\* C20: a decide call on request r changes nothing but the status,
\* approver, approval_notes, approved_at and provisioned_at of r and adds
\* ProvisionedDatabase records that reference r: the id, team_name,
\* db_type, environment, size, purpose and created_at of r, every other
\* request and every existing ProvisionedDatabase record stay unchanged;
\* a submit call changes no existing record.
C20_DecideFrame ==
    [][/\ \A r \in DOMAIN db_requests :
            /\ r \in DOMAIN db_requests'
            /\ Immutable(db_requests'[r]) = Immutable(db_requests[r])
            /\ db_requests'[r] # db_requests[r] => DecideSteps(r)
       /\ Len(provisioned_databases') \in
            {Len(provisioned_databases), Len(provisioned_databases) + 1}
       /\ \A i \in 1..Len(provisioned_databases) :
            provisioned_databases'[i] = provisioned_databases[i]
       /\ Len(provisioned_databases') > Len(provisioned_databases)
            => DecideSteps(provisioned_databases'[Len(provisioned_databases')].request_id)
       /\ Submits
            => /\ provisioned_databases' = provisioned_databases
               /\ \A r \in DOMAIN db_requests : db_requests'[r] = db_requests[r]]_vars

C20_Witness ==
    \E c, d \in Calls : \E q \in DOMAIN db_requests :
        /\ Decided(c)
        /\ calls[c].body.action = "approve"
        /\ calls[c].body.request_id # q
        /\ db_requests[calls[c].body.request_id].status = "provisioned"
        /\ DatabasesOf(calls[c].body.request_id) # {}
        /\ calls[d].op = "create_request"
        /\ d > c
        /\ calls[d].response.request_id = q
        /\ db_requests[q].status = "pending"
        /\ DatabasesOf(q) = {}

=============================================================================
